---------------------------- MODULE Spec2Model ----------------------------
(***************************************************************************)
(* gunicorn/instrument/statsd.py: the Statsd logger, a logging facade that *)
(* also emits statsD datagrams over a connected UDP socket.                *)
(*                                                                         *)
(* Python values are modelled as follows.                                  *)
(*   - strings are TLA+ strings; the value None of an optional string is   *)
(*     the sentinel None below;                                            *)
(*   - a number is a record [t, m]: t is "int" or "float" (or "none" for   *)
(*     None) and m is the number in thousandths, so that                   *)
(*     seconds * 1000 + microseconds / 10**3 is exact;                     *)
(*   - a text that the code splits and parses (the status line) is a       *)
(*     sequence of one-character strings;                                  *)
(*   - the tags argument of a call is None or a reference ("ref") to the   *)
(*     one list object the caller owns, whose content is callerTags.       *)
(***************************************************************************)
EXTENDS Integers, Sequences, FiniteSets, TLC

VARIABLES
    pc,               \* "new" before Statsd(cfg), "called" when a call has ended and
                      \* its record stands, "idle" between calls
    proc_name,        \* self.proc_name
    statsd_use_tags,  \* self.statsd_use_tags
    sock,             \* self.sock: None or the socket created by __init__
    callerTags,       \* content of the caller-owned tag list
    lastCall,         \* the call that has ended: its inputs, and the caller's tag
                      \* list as the call found and left it
    events,           \* what that call did: base-logger calls and socket sends, in order
    raised            \* whether that call propagated an exception to its caller

vars == <<pc, proc_name, statsd_use_tags, sock, callerTags, lastCall, events, raised>>

\* Longest caller-owned tag list the model follows.
MaxTags == 2

None == "<None>"
SOCKET == "<socket>"

-----------------------------------------------------------------------------
(* Python values *)

PyNone == [t |-> "none", m |-> 0]
PyInt(n) == [t |-> "int", m |-> n * 1000]
PyFloat(thousandths) == [t |-> "float", m |-> thousandths]

\* bool(v) of a number or None
Truthy(v) == v.t # "none" /\ v.m # 0

\* bool(s) of a string or None
TruthyStr(s) == s # None /\ s # ""

\* the digits after the point of a float's str(), from its thousandths
FracStr(f) ==
    IF f % 10 # 0 THEN ToString(f \div 100) \o ToString((f \div 10) % 10) \o ToString(f % 10)
    ELSE IF (f \div 10) % 10 # 0 THEN ToString(f \div 100) \o ToString((f \div 10) % 10)
    ELSE ToString(f \div 100)

\* "{0}".format(v)
Str(v) ==
    CASE v.t = "none" -> "None"
      [] v.t = "int" -> ToString(v.m \div 1000)
      [] v.t = "float" -> ToString(v.m \div 1000) \o "." \o FracStr(v.m % 1000)

\* sep.join(parts)
RECURSIVE Join(_, _)
Join(sep, parts) ==
    IF parts = << >> THEN ""
    ELSE IF Len(parts) = 1 THEN parts[1]
    ELSE parts[1] \o sep \o Join(sep, Tail(parts))

-----------------------------------------------------------------------------
(* datagram formatting *)

\* _metric_name without the test of the tag-mode flag
MetricNameIgnoringTagMode(name) ==
    LET name_parts ==
            IF proc_name # None /\ Len(proc_name) > 0 /\ proc_name # "gunicorn"
            THEN <<"gunicorn", proc_name, name>>
            ELSE <<"gunicorn", name>>
    IN Join(".", name_parts)

\* Statsd._metric_name
_metric_name(name) ==
    LET name_parts ==
            IF ~statsd_use_tags /\ proc_name # None /\ Len(proc_name) > 0
               /\ proc_name # "gunicorn"
            THEN <<"gunicorn", proc_name, name>>
            ELSE <<"gunicorn", name>>
    IN Join(".", name_parts)

\* "app:{0}".format(self.proc_name)
AppTag == "app:" \o proc_name

\* the sampling-rate part of Statsd._meta
RateMeta(sampling_rate) ==
    IF sampling_rate.t # "none" /\ sampling_rate.m > 0 /\ sampling_rate.m <= 1000
    THEN "|@" \o Str(sampling_rate)
    ELSE ""

\* the list Statsd._meta joins: None, a fresh list, or the caller's list after append
MetaTags(tags, heap) ==
    IF proc_name # None /\ proc_name # "gunicorn"
    THEN IF tags = None
         THEN [isNone |-> FALSE, list |-> <<AppTag>>, heap |-> heap]
         ELSE [isNone |-> FALSE, list |-> Append(heap, AppTag), heap |-> Append(heap, AppTag)]
    ELSE IF tags = None
         THEN [isNone |-> TRUE, list |-> << >>, heap |-> heap]
         ELSE [isNone |-> FALSE, list |-> heap, heap |-> heap]

\* Statsd._meta: exc when ",".join(tags) is given None (TypeError);
\* heap is the caller's list as the call leaves it
_meta(sampling_rate, tags, heap) ==
    IF statsd_use_tags
    THEN LET t == MetaTags(tags, heap)
         IN [exc |-> t.isNone,
             meta |-> RateMeta(sampling_rate) \o "|#" \o Join(",", t.list),
             tags |-> t.list,
             heap |-> t.heap]
    ELSE [exc |-> FALSE, meta |-> RateMeta(sampling_rate), tags |-> << >>, heap |-> heap]

-----------------------------------------------------------------------------
(* what a call does, as the two sinks see it *)

NoExtra == [kind |-> "none", metric |-> None, value |-> PyNone, mtype |-> None, tags |-> None]

\* a call received by the base Logger; ok is whether it returned normally
BaseEv(op, lvl, msg, extra, ok) ==
    [kind |-> "base", op |-> op, lvl |-> lvl, msg |-> msg, extra |-> extra, ok |-> ok,
     data |-> "", raw |-> "", name |-> "", lit |-> "", value |-> PyNone, type |-> "",
     meta |-> "", tags |-> << >>]

\* one self.sock.send(data); ok is whether it returned normally. The other
\* fields are the parts data was formatted from: the raw name and the name
\* _metric_name made of it, the literal before the value, the value, the type
\* literal, and the meta and the tags _meta gave.
SendEv(data, raw, fmt, value, suffix, m, ok) ==
    [kind |-> "send", op |-> "send", lvl |-> None, msg |-> None, extra |-> NoExtra, ok |-> ok,
     data |-> data, raw |-> raw, name |-> _metric_name(raw), lit |-> fmt, value |-> value,
     type |-> suffix, meta |-> m.meta, tags |-> m.tags]

\* the body shared by the four statsD methods: fmt is the literal between
\* the name and the value, suffix the type literal
Emit(fmt, suffix, name, value, sampling_rate, tags, heap, sendOk) ==
    IF sock # None
    THEN LET m == _meta(sampling_rate, tags, heap)
             data == _metric_name(name) \o fmt \o Str(value) \o suffix \o m.meta
         IN IF m.exc
            THEN [ev |-> << >>, heap |-> m.heap]
            ELSE [ev |-> <<SendEv(data, name, fmt, value, suffix, m, sendOk)>>,
                  heap |-> m.heap]
    ELSE [ev |-> << >>, heap |-> heap]

\* Statsd.gauge
gauge(name, value, tags, heap, sendOk) ==
    Emit(":", "|g", name, value, PyNone, tags, heap, sendOk)

\* Statsd.increment
increment(name, value, tags, sampling_rate, heap, sendOk) ==
    Emit(":", "|c", name, value, sampling_rate, tags, heap, sendOk)

\* Statsd.decrement
decrement(name, value, tags, sampling_rate, heap, sendOk) ==
    Emit(":-", "|c", name, value, sampling_rate, tags, heap, sendOk)

\* Statsd.histogram
histogram(name, value, tags, heap, sendOk) ==
    Emit(":", "|ms", name, value, PyNone, tags, heap, sendOk)

\* the default of the sampling_rate parameter
DefaultRate == PyFloat(1000)

-----------------------------------------------------------------------------
(* the logging methods; each gives [ev, heap, raised] *)

\* critical, error, warning, exception: Logger.<op> first, outside any try,
\* then the increment of "log.<op>"
Leveled(op, msg, heap, baseOk, sendOk) ==
    IF ~baseOk
    THEN [ev |-> <<BaseEv(op, None, msg, NoExtra, FALSE)>>, heap |-> heap, raised |-> TRUE]
    ELSE LET r == increment("log." \o op, PyInt(1), None, DefaultRate, heap, sendOk)
         IN [ev |-> <<BaseEv(op, None, msg, NoExtra, TRUE)>> \o r.ev,
             heap |-> r.heap, raised |-> FALSE]

\* Statsd.critical
critical(msg, heap, baseOk, sendOk) == Leveled("critical", msg, heap, baseOk, sendOk)

\* Statsd.error
error(msg, heap, baseOk, sendOk) == Leveled("error", msg, heap, baseOk, sendOk)

\* Statsd.warning
warning(msg, heap, baseOk, sendOk) == Leveled("warning", msg, heap, baseOk, sendOk)

\* Statsd.exception
exception(msg, heap, baseOk, sendOk) == Leveled("exception", msg, heap, baseOk, sendOk)

\* the metric part of Statsd.log, lines 82-96, for an extra that is a mapping
Dispatch(extra, heap, sendOk) ==
    IF TruthyStr(extra.metric) /\ Truthy(extra.value) /\ TruthyStr(extra.mtype)
    THEN CASE extra.mtype = "gauge" ->
                gauge(extra.metric, extra.value, extra.tags, heap, sendOk)
           [] extra.mtype = "counter" ->
                increment(extra.metric, extra.value, extra.tags, DefaultRate, heap, sendOk)
           [] extra.mtype = "histogram" ->
                histogram(extra.metric, extra.value, extra.tags, heap, sendOk)
           [] OTHER -> [ev |-> << >>, heap |-> heap]
    ELSE [ev |-> << >>, heap |-> heap]

\* the base-logger part of Statsd.log, lines 99-100
Forward(lvl, msg, extra, baseOk) ==
    IF msg # None /\ Len(msg) > 0
    THEN <<BaseEv("log", lvl, msg, extra, baseOk)>>
    ELSE << >>

\* Statsd.log: one try around both parts; extra.get of a non-mapping raises
\* and the except leaves the method
log(lvl, msg, extra, heap, baseOk, sendOk) ==
    CASE extra.kind = "none" ->
            [ev |-> Forward(lvl, msg, extra, baseOk), heap |-> heap, raised |-> FALSE]
      [] extra.kind = "notmapping" ->
            [ev |-> << >>, heap |-> heap, raised |-> FALSE]
      [] extra.kind = "dict" ->
            LET d == Dispatch(extra, heap, sendOk)
            IN [ev |-> d.ev \o Forward(lvl, msg, extra, baseOk), heap |-> d.heap,
                raised |-> FALSE]

\* Statsd.info
info(msg, extra, heap, baseOk, sendOk) == log("INFO", msg, extra, heap, baseOk, sendOk)

\* Statsd.debug
debug(msg, extra, heap, baseOk, sendOk) == log("DEBUG", msg, extra, heap, baseOk, sendOk)

-----------------------------------------------------------------------------
(* access logging *)

Whitespace == {" ", "\t"}
Digits == {"0", "1", "2", "3", "4", "5", "6", "7", "8", "9"}

DigitVal(c) ==
    CASE c = "0" -> 0 [] c = "1" -> 1 [] c = "2" -> 2 [] c = "3" -> 3 [] c = "4" -> 4
      [] c = "5" -> 5 [] c = "6" -> 6 [] c = "7" -> 7 [] c = "8" -> 8 [] c = "9" -> 9

\* text.split(): the maximal runs of characters that are not whitespace
RECURSIVE SplitFrom(_, _, _)
SplitFrom(text, i, cur) ==
    IF i > Len(text)
    THEN IF cur = << >> THEN << >> ELSE <<cur>>
    ELSE IF text[i] \in Whitespace
         THEN IF cur = << >> THEN SplitFrom(text, i + 1, << >>)
              ELSE <<cur>> \o SplitFrom(text, i + 1, << >>)
         ELSE SplitFrom(text, i + 1, Append(cur, text[i]))

Split(text) == SplitFrom(text, 1, << >>)

\* whether int(token) returns; a token of decimal digits does (the status
\* lines of the model carry no sign)
IsInt(token) == token # << >> /\ \A i \in 1..Len(token) : token[i] \in Digits

\* int(token) of a token of decimal digits
RECURSIVE IntOf(_)
IntOf(token) ==
    IF token = << >> THEN 0
    ELSE 10 * IntOf(SubSeq(token, 1, Len(token) - 1)) + DigitVal(token[Len(token)])

\* whether int(resp.status.split()[0]) returns: IndexError on no token,
\* ValueError on a token that is no integer
StatusParses(status) == Split(status) # << >> /\ IsInt(Split(status)[1])

\* "request.status.%d" % int(resp.status.split()[0])
StatusMetric(status) == "request.status." \o ToString(IntOf(Split(status)[1]))

\* request_time.seconds * 1000 + float(request_time.microseconds)/10**3
DurationInMs(seconds, microseconds) == PyFloat(seconds * 1000 * 1000 + microseconds)

\* Statsd.access: Logger.access, the duration, two metrics, then the status
\* parse and the third metric, none of it inside a try
access(status, seconds, microseconds, heap, baseOk, sendOk) ==
    IF ~baseOk
    THEN [ev |-> <<BaseEv("access", None, None, NoExtra, FALSE)>>, heap |-> heap,
          raised |-> TRUE]
    ELSE LET duration_in_ms == DurationInMs(seconds, microseconds)
             h == histogram("request.duration", duration_in_ms, None, heap, sendOk[1])
             r == increment("requests", PyInt(1), None, DefaultRate, h.heap, sendOk[2])
             done == <<BaseEv("access", None, None, NoExtra, TRUE)>> \o h.ev \o r.ev
         IN IF ~StatusParses(status)
            THEN [ev |-> done, heap |-> r.heap, raised |-> TRUE]
            ELSE LET s == increment(StatusMetric(status), PyInt(1), None, DefaultRate,
                                    r.heap, sendOk[3])
                 IN [ev |-> done \o s.ev, heap |-> s.heap, raised |-> FALSE]

-----------------------------------------------------------------------------
(* construction *)

\* A configuration object: attrs are the attributes it has; the fields give
\* the values of those it has. statsd_host is None, a (host, port) pair
\* ("pair") or a pair whose port is no number ("badport").
NoCfg == [attrs |-> {}, proc_name |-> None, statsd_use_tags |-> FALSE, statsd_host |-> None]

\* Statsd.__init__, lines 30-41: the defaults, then the two reads of cfg. A
\* missing attribute raises AttributeError, and the except clause then reads
\* cfg.AttributeError, which raises again when cfg has no such attribute.
InitNaming(cfg) ==
    IF "proc_name" \notin cfg.attrs
    THEN [proc_name |-> None, statsd_use_tags |-> FALSE,
          raised |-> "AttributeError" \notin cfg.attrs]
    ELSE IF "statsd_use_tags" \notin cfg.attrs
    THEN [proc_name |-> cfg.proc_name, statsd_use_tags |-> FALSE,
          raised |-> "AttributeError" \notin cfg.attrs]
    ELSE [proc_name |-> cfg.proc_name, statsd_use_tags |-> cfg.statsd_use_tags,
          raised |-> FALSE]

\* Statsd.__init__, lines 44-51: the socket, or None should anything fail
InitSock(cfg, socketOk) ==
    IF "statsd_host" \in cfg.attrs /\ cfg.statsd_host = "pair" /\ socketOk
    THEN SOCKET
    ELSE None

-----------------------------------------------------------------------------
(* the inputs the model draws *)

ProcNames == {None, "", "gunicorn", "api"}
HostValues == {None, "pair", "badport"}
CfgAttrs == {"proc_name", "statsd_use_tags", "statsd_host", "AttributeError"}

\* every configuration object; a field of an attribute it lacks is unused
Cfgs ==
    {c \in [attrs : SUBSET CfgAttrs, proc_name : ProcNames,
            statsd_use_tags : BOOLEAN, statsd_host : HostValues] :
        /\ "proc_name" \notin c.attrs => c.proc_name = None
        /\ "statsd_use_tags" \notin c.attrs => c.statsd_use_tags = FALSE
        /\ "statsd_host" \notin c.attrs => c.statsd_host = None}

Msgs == {None, "", "boom"}
Levels == {"INFO", "ERROR"}
MetricNames == {"requests", "queue.depth"}
MetricValues == {PyInt(1), PyInt(5)}
Rates == {DefaultRate, PyFloat(500), PyFloat(1500), PyInt(0), PyNone}
TagArgs == {None, "ref"}
TagLists == {<< >>, <<"env:prod">>}

\* the extra keyword of a logging call: absent, no mapping, or a mapping
\* whose get gives None for a key it lacks
DictExtra(metric, value, mtype, tags) ==
    [kind |-> "dict", metric |-> metric, value |-> value, mtype |-> mtype, tags |-> tags]

Extras ==
    {NoExtra, [NoExtra EXCEPT !.kind = "notmapping"]}
    \cup {DictExtra(metric, value, mtype, tags) :
            metric \in {None, "", "queue.depth"},
            value \in {PyNone, PyInt(0), PyInt(5)},
            mtype \in {None, "", "gauge", "counter", "histogram", "timer"},
            tags \in TagArgs}

\* status lines: "404 NF", "200 OK", " 007 x", "abc", "" and " "
StatusLines ==
    {<<"4", "0", "4", " ", "N", "F">>, <<"2", "0", "0", " ", "O", "K">>,
     <<" ", "0", "0", "7", " ", "x">>, <<"a", "b", "c">>, << >>, <<" ">>}

\* request durations as (seconds, microseconds)
Durations == {<<1, 500000>>, <<0, 1>>, <<2, 250000>>}

\* whether a send returns (a socket error, or a payload the socket refuses,
\* makes it raise); it can fail only where there is a socket
SendChoices == IF sock = None THEN {TRUE} ELSE BOOLEAN

\* whether each of the three sends of an access call returns
SendOutcomes == [1..3 -> SendChoices]

-----------------------------------------------------------------------------
(* the state machine *)

NoCall ==
    [op |-> "none", name |-> None, value |-> PyNone, rate |-> PyNone, tags |-> None,
     lvl |-> None, msg |-> None, extra |-> NoExtra, status |-> << >>,
     seconds |-> 0, microseconds |-> 0, cfg |-> NoCfg, heapBefore |-> << >>,
     heapAfter |-> << >>]

\* before Statsd(cfg)
Init ==
    /\ pc = "new"
    /\ proc_name = None
    /\ statsd_use_tags = FALSE
    /\ sock = None
    /\ callerTags = << >>
    /\ lastCall = NoCall
    /\ events = << >>
    /\ raised = FALSE

\* a call may pass the caller's list while the model follows its length
TagsUsable(tags) == tags = "ref" => Len(callerTags) < MaxTags

\* a call on the facade: its record, and the [ev, heap, raised] it gives
Call(c, r) ==
    /\ pc' = "called"
    /\ lastCall' = [c EXCEPT !.heapBefore = callerTags, !.heapAfter = r.heap]
    /\ events' = r.ev
    /\ callerTags' = r.heap
    /\ raised' = r.raised
    /\ UNCHANGED <<proc_name, statsd_use_tags, sock>>

\* a statsD method: it has no raised field of its own, it returns
Metric(c, r) == Call(c, [ev |-> r.ev, heap |-> r.heap, raised |-> FALSE])

\* Statsd(cfg)
Construct ==
    /\ pc = "new"
    /\ \E cfg \in Cfgs, socketOk \in BOOLEAN :
         LET n == InitNaming(cfg)
         IN /\ pc' = "called"
            /\ lastCall' = [NoCall EXCEPT !.op = "__init__", !.cfg = cfg]
            /\ raised' = n.raised
            /\ proc_name' = n.proc_name
            /\ statsd_use_tags' = n.statsd_use_tags
            /\ sock' = IF n.raised THEN None ELSE InitSock(cfg, socketOk)
            /\ UNCHANGED <<callerTags, events>>

\* the caller has seen what its call did and is ready for the next one; a
\* facade whose construction raised does not exist and takes no call
NextCall ==
    /\ pc = "called"
    /\ ~(lastCall.op = "__init__" /\ raised)
    /\ pc' = "idle"
    /\ lastCall' = NoCall
    /\ events' = << >>
    /\ raised' = FALSE
    /\ UNCHANGED <<proc_name, statsd_use_tags, sock, callerTags>>

\* the caller builds a tag list of its own
NewTagList ==
    /\ pc = "idle"
    /\ \E l \in TagLists : callerTags' = l
    /\ UNCHANGED <<pc, proc_name, statsd_use_tags, sock, lastCall, events, raised>>

CallCritical ==
    /\ pc = "idle"
    /\ \E msg \in Msgs, baseOk \in BOOLEAN, sendOk \in SendChoices :
            Call([NoCall EXCEPT !.op = "critical", !.msg = msg],
                 critical(msg, callerTags, baseOk, sendOk))

CallError ==
    /\ pc = "idle"
    /\ \E msg \in Msgs, baseOk \in BOOLEAN, sendOk \in SendChoices :
            Call([NoCall EXCEPT !.op = "error", !.msg = msg],
                 error(msg, callerTags, baseOk, sendOk))

CallWarning ==
    /\ pc = "idle"
    /\ \E msg \in Msgs, baseOk \in BOOLEAN, sendOk \in SendChoices :
            Call([NoCall EXCEPT !.op = "warning", !.msg = msg],
                 warning(msg, callerTags, baseOk, sendOk))

CallException ==
    /\ pc = "idle"
    /\ \E msg \in Msgs, baseOk \in BOOLEAN, sendOk \in SendChoices :
            Call([NoCall EXCEPT !.op = "exception", !.msg = msg],
                 exception(msg, callerTags, baseOk, sendOk))

CallInfo ==
    /\ pc = "idle"
    /\ \E msg \in Msgs, extra \in Extras, baseOk \in BOOLEAN, sendOk \in SendChoices :
            /\ TagsUsable(extra.tags)
            /\ Call([NoCall EXCEPT !.op = "info", !.lvl = "INFO", !.msg = msg, !.extra = extra],
                    info(msg, extra, callerTags, baseOk, sendOk))

CallDebug ==
    /\ pc = "idle"
    /\ \E msg \in Msgs, extra \in Extras, baseOk \in BOOLEAN, sendOk \in SendChoices :
            /\ TagsUsable(extra.tags)
            /\ Call([NoCall EXCEPT !.op = "debug", !.lvl = "DEBUG", !.msg = msg, !.extra = extra],
                    debug(msg, extra, callerTags, baseOk, sendOk))

CallLog ==
    /\ pc = "idle"
    /\ \E lvl \in Levels, msg \in Msgs, extra \in Extras, baseOk \in BOOLEAN,
           sendOk \in SendChoices :
            /\ TagsUsable(extra.tags)
            /\ Call([NoCall EXCEPT !.op = "log", !.lvl = lvl, !.msg = msg, !.extra = extra],
                    log(lvl, msg, extra, callerTags, baseOk, sendOk))

CallAccess ==
    /\ pc = "idle"
    /\ \E status \in StatusLines, d \in Durations, baseOk \in BOOLEAN, sendOk \in SendOutcomes :
            Call([NoCall EXCEPT !.op = "access", !.status = status, !.seconds = d[1],
                                !.microseconds = d[2]],
                 access(status, d[1], d[2], callerTags, baseOk, sendOk))

CallGauge ==
    /\ pc = "idle"
    /\ \E name \in MetricNames, value \in MetricValues, tags \in TagArgs,
           sendOk \in SendChoices :
            /\ TagsUsable(tags)
            /\ Metric([NoCall EXCEPT !.op = "gauge", !.name = name, !.value = value,
                                     !.tags = tags],
                      gauge(name, value, tags, callerTags, sendOk))

CallIncrement ==
    /\ pc = "idle"
    /\ \E name \in MetricNames, value \in MetricValues, tags \in TagArgs, rate \in Rates,
           sendOk \in SendChoices :
            /\ TagsUsable(tags)
            /\ Metric([NoCall EXCEPT !.op = "increment", !.name = name, !.value = value,
                                     !.tags = tags, !.rate = rate],
                      increment(name, value, tags, rate, callerTags, sendOk))

CallDecrement ==
    /\ pc = "idle"
    /\ \E name \in MetricNames, value \in MetricValues, tags \in TagArgs, rate \in Rates,
           sendOk \in SendChoices :
            /\ TagsUsable(tags)
            /\ Metric([NoCall EXCEPT !.op = "decrement", !.name = name, !.value = value,
                                     !.tags = tags, !.rate = rate],
                      decrement(name, value, tags, rate, callerTags, sendOk))

CallHistogram ==
    /\ pc = "idle"
    /\ \E name \in MetricNames, value \in MetricValues, tags \in TagArgs,
           sendOk \in SendChoices :
            /\ TagsUsable(tags)
            /\ Metric([NoCall EXCEPT !.op = "histogram", !.name = name, !.value = value,
                                     !.tags = tags],
                      histogram(name, value, tags, callerTags, sendOk))

Next ==
    \/ Construct
    \/ NextCall
    \/ NewTagList
    \/ CallCritical
    \/ CallError
    \/ CallWarning
    \/ CallException
    \/ CallInfo
    \/ CallDebug
    \/ CallLog
    \/ CallAccess
    \/ CallGauge
    \/ CallIncrement
    \/ CallDecrement
    \/ CallHistogram

Spec == Init /\ [][Next]_vars

-----------------------------------------------------------------------------
(* the vocabulary of the properties *)

LeveledOps == {"critical", "error", "warning", "exception"}
LogOps == {"log", "info", "debug"}
MetricOps == {"gauge", "increment", "decrement", "histogram"}
PublicOps == LeveledOps \cup LogOps \cup MetricOps \cup {"access"}

IsSend(e) == e.kind = "send"
IsBase(e) == e.kind = "base"
Sends == SelectSeq(events, IsSend)
Bases == SelectSeq(events, IsBase)

HasMessage == lastCall.msg # None /\ lastCall.msg # ""

\* the tag that names the process, and how often a datagram carries it
ProcTag == "app:" \o proc_name
ProcTagCount(e) == Cardinality({i \in DOMAIN e.tags : e.tags[i] = ProcTag})

\* a process name that is configured and is not the reserved default
NamedProcess == proc_name \notin {None, "", "gunicorn"}

\* the name of a datagram is the raw name behind the namespace and the process name
NameCarriesProcess(e) ==
    proc_name # None /\ e.name = "gunicorn." \o proc_name \o "." \o e.raw

\* the datagram on the wire is made of its recorded parts
WireOfParts(e) == e.data = e.name \o e.lit \o Str(e.value) \o e.type \o e.meta

\* a counter increment of raw name n by 1
IsIncrementByOne(e, n) ==
    IsSend(e) /\ e.raw = n /\ e.lit = ":" /\ e.value = PyInt(1) /\ e.type = "|c"

-----------------------------------------------------------------------------
(* the properties *)

\* C1: no public operation of the facade ever propagates an exception to its
\* caller, whatever fails: the base logger, the formatting of the datagram,
\* the send, or the parse of the status line in access.
C1_NeverPropagates == lastCall.op \in PublicOps => ~raised

\* C2: a facade call that carries a non-empty message reaches the base logger
\* as exactly that call, whatever becomes of the call's metric: sent, no
\* transport, failed send, failed formatting, or an extra that is no mapping.
C2_LoggingIndependentOfMetrics ==
    (lastCall.op \in LeveledOps \cup LogOps /\ HasMessage) =>
        /\ Len(Bases) = 1
        /\ Bases[1].op = (IF lastCall.op \in LogOps THEN "log" ELSE lastCall.op)
        /\ Bases[1].lvl = lastCall.lvl
        /\ Bases[1].msg = lastCall.msg
        /\ Bases[1].extra = lastCall.extra

\* C3 (sends): a call to gauge, increment, decrement or histogram makes exactly
\* one send attempt where the socket was created at construction and none
\* where it was not.
OneSendPerMetricCall ==
    lastCall.op \in MetricOps => Len(Sends) = (IF sock # None THEN 1 ELSE 0)

\* C3 (handle): once the facade is constructed its socket is never created,
\* replaced or cleared.
HandleFixed == [][pc # "new" => sock' = sock]_vars

\* C3: every metric call makes exactly one send attempt with a transport and
\* none without, a failed send is not retried, and the handle never changes
\* after construction.
C3_OneSendAndFixedHandle == []OneSendPerMetricCall /\ HandleFixed

\* C4: construction never fails, whichever configuration fields are absent
\* and however the socket fails, and it leaves the default for what is
\* missing: no process name, tag-mode off, no transport.
C4_ConstructionTotal ==
    lastCall.op = "__init__" =>
        /\ ~raised
        /\ "proc_name" \notin lastCall.cfg.attrs => proc_name = None
        /\ "statsd_use_tags" \notin lastCall.cfg.attrs => statsd_use_tags = FALSE
        /\ "statsd_host" \notin lastCall.cfg.attrs => sock = None

\* C5: a critical, error, warning or exception call whose base-logger call
\* returns is, with a transport, that base-logger call followed by exactly one
\* increment of log.<level> by 1, in every configuration; info and debug
\* without a metric payload send nothing.
C5_LevelThenIncrement ==
    /\ (lastCall.op \in LeveledOps /\ sock # None /\ events[1].ok) =>
          /\ Len(events) = 2
          /\ IsBase(events[1]) /\ events[1].op = lastCall.op
          /\ IsIncrementByOne(events[2], "log." \o lastCall.op)
    /\ (lastCall.op \in {"info", "debug"} /\ lastCall.extra.kind = "none") => Sends = << >>

\* C6: an access call whose base-logger call returns and whose status line
\* starts with an integer is, with a transport, the base access call followed
\* by exactly three metrics: the histogram request.duration of
\* seconds*1000 + microseconds/1000, the increment of requests by 1 and the
\* increment of request.status.<statusCode> by 1.
C6_AccessThenThreeMetrics ==
    (lastCall.op = "access" /\ sock # None /\ events[1].ok /\ StatusParses(lastCall.status)) =>
        /\ Len(events) = 4
        /\ IsBase(events[1]) /\ events[1].op = "access"
        /\ IsSend(events[2]) /\ events[2].raw = "request.duration" /\ events[2].type = "|ms"
        /\ events[2].value.t = "float"
        /\ events[2].value.m = (lastCall.seconds * 1000) * 1000 + lastCall.microseconds
        /\ IsIncrementByOne(events[3], "requests")
        /\ IsIncrementByOne(events[4], StatusMetric(lastCall.status))

\* the type literal of a metric kind
KindLiteral(k) == CASE k = "gauge" -> "|g" [] k = "counter" -> "|c" [] k = "histogram" -> "|ms"

\* the payload names a metric: name, value and kind truthy and the kind known
PayloadComplete(x) ==
    /\ x.kind = "dict"
    /\ TruthyStr(x.metric) /\ Truthy(x.value)
    /\ x.mtype \in {"gauge", "counter", "histogram"}

\* C7: in log (and info and debug) the metric and the base-logger call are
\* decided independently: with a transport one datagram of the matching kind
\* is sent exactly when the payload is complete, and the base logger is
\* called exactly when the message is non-empty.
C7_LogEffectsIndependent ==
    (lastCall.op \in LogOps /\ sock # None) =>
        /\ Len(Sends) = (IF PayloadComplete(lastCall.extra) THEN 1 ELSE 0)
        /\ PayloadComplete(lastCall.extra) =>
              /\ Sends[1].raw = lastCall.extra.metric
              /\ Sends[1].type = KindLiteral(lastCall.extra.mtype)
        /\ Len(Bases) = (IF HasMessage THEN 1 ELSE 0)

\* the qualified name as the naming policy states it
QualifiedName(raw) ==
    IF ~statsd_use_tags /\ NamedProcess
    THEN "gunicorn." \o proc_name \o "." \o raw
    ELSE "gunicorn." \o raw

\* C8: every datagram sent has the name gunicorn.<processName>.<rawName> when
\* tag-mode is off and the process name is non-empty and not gunicorn, and
\* gunicorn.<rawName> otherwise, and none carries the process name both in
\* its name and in an app: tag.
C8_QualifiedName ==
    \A i \in DOMAIN events :
        IsSend(events[i]) =>
            /\ events[i].name = QualifiedName(events[i].raw)
            /\ WireOfParts(events[i])
            /\ ~(NameCarriesProcess(events[i]) /\ ProcTagCount(events[i]) > 0)

\* C8 happens: a datagram named with the process name, tag-mode off
C8_Witness ==
    \E i \in DOMAIN events :
        /\ IsSend(events[i]) /\ events[i].name = "gunicorn.api.requests"
        /\ events[i].data = "gunicorn.api.requests:1|c|@1.0"

\* the tags a datagram of a direct metric call is to carry: the caller's,
\* then app:<processName> for a process name that is not the default
TagsToCarry ==
    (IF lastCall.tags = None THEN << >> ELSE lastCall.heapBefore)
    \o (IF proc_name \notin {None, "gunicorn"} THEN <<ProcTag>> ELSE << >>)

\* C9: with tag-mode on and a transport, every metric call sends a datagram
\* whose meta ends in |# and the comma-join of the caller's tags plus
\* app:<processName>, a bare |# when there is no tag at all.
C9_TagSuffix ==
    (lastCall.op \in MetricOps /\ statsd_use_tags /\ sock # None) =>
        /\ Len(Sends) = 1
        /\ Sends[1].meta = RateMeta(lastCall.rate) \o "|#" \o Join(",", TagsToCarry)

\* C10: a call leaves the caller's tag list as it found it, so that with
\* tag-mode on and a process name that is not the default every datagram
\* carries app:<processName> exactly once, whatever calls came before.
C10_TagsUntouched ==
    lastCall.op \in PublicOps =>
        /\ lastCall.heapAfter = lastCall.heapBefore
        /\ (statsd_use_tags /\ proc_name \notin {None, "gunicorn"}) =>
              \A i \in DOMAIN events : IsSend(events[i]) => ProcTagCount(events[i]) = 1

=============================================================================
